---- MODULE Spec2Model ----
(***************************************************************************)
(* Model of scripts/parser.py: the OpenMensa feed generator for the        *)
(* Zentralmensa Arnold-Bode-Strasse.                                       *)
(*                                                                         *)
(* A Python str is a sequence of characters; a character is a one-element  *)
(* TLA+ string.  The regular expressions of the source are written as      *)
(* data (Chr, Cat, Rep, Grp, Eol) and run by a backtracking matcher with   *)
(* Python's priorities (greedy repetition, leftmost match).                *)
(***************************************************************************)
EXTENDS Integers, Sequences, FiniteSets, TLC

VARIABLES
  pc,          \* position of the running call
  given,       \* the structured content the input string was written from
  fetch,       \* main: "pending", then whether fetch_html "returned" or "raised"
  nowYear,     \* datetime.now().year
  text,        \* main: the page text
  days,        \* main: the list returned by parse_text_blocks
  xml,         \* main: the document returned by build_openmensa_xml
  feed,        \* what this run has written to output/feed.xml
  exitCode,    \* the arguments of the sys.exit calls made so far
  ent,         \* one element of entries (parser.py:58)
  meals,       \* the meals list of the day being parsed
  price_line,  \* the designated price line
  prices       \* the prices dict of a meal

vars == <<pc, given, fetch, nowYear, text, days, xml, feed, exitCode, ent, meals, price_line, prices>>

\* Python's None, where the other values are records
None == [none |-> TRUE]

\* price_line = None. The code only tests price_line for truth and compares it
\* with non-empty lines, so None and the empty str behave alike.
NoLine == <<>>

(***************************************************************************)
(* Characters                                                              *)
(***************************************************************************)
Digit == {"0", "1", "2", "3", "4", "5", "6", "7", "8", "9"}
Upper == {"A", "B", "C", "D", "E", "G", "H", "M", "N", "S"}
Lower == {"a", "b", "c", "e", "f", "g", "h", "i", "n", "o", "p", "r", "s", "t", "u", "x", "y"}
Umlaut == {"Ä", "Ö", "Ü", "ä", "ö", "ü", "ß"}
White == {" ", "\n", "\t"}
Punct == {"#", "*", ",", ".", "/", "(", ")", "-", "+", ":", "€"}
Alphabet == Digit \cup Upper \cup Lower \cup Umlaut \cup White \cup Punct

\* [A-Za-zÄÖÜäöüß]
SourceLetter == Upper \cup Lower \cup Umlaut

DigitVal(c) ==
  CASE c = "0" -> 0 [] c = "1" -> 1 [] c = "2" -> 2 [] c = "3" -> 3 [] c = "4" -> 4
    [] c = "5" -> 5 [] c = "6" -> 6 [] c = "7" -> 7 [] c = "8" -> 8 [] c = "9" -> 9

(***************************************************************************)
(* str helpers                                                             *)
(***************************************************************************)
Slice(s, a, b) == SubSeq(s, a, b)          \* characters a..b, 1-based, inclusive

RECURSIVE LStripFrom(_, _)
LStripFrom(s, i) == IF i <= Len(s) /\ s[i] \in White THEN LStripFrom(s, i + 1) ELSE i

RECURSIVE RStripFrom(_, _)
RStripFrom(s, j) == IF j >= 1 /\ s[j] \in White THEN RStripFrom(s, j - 1) ELSE j

\* str.strip()
Strip(s) == Slice(s, LStripFrom(s, 1), RStripFrom(s, Len(s)))

\* str.replace(c, "") for a single character c
RemoveChar(s, c) == SelectSeq(s, LAMBDA d : d # c)

\* str.replace(c, d) for single characters
ReplaceChar(s, c, d) == [i \in 1..Len(s) |-> IF s[i] = c THEN d ELSE s[i]]

RECURSIVE Flatten(_)
Flatten(ss) == IF ss = <<>> THEN <<>> ELSE Head(ss) \o Flatten(Tail(ss))

Min(S) == CHOOSE x \in S : \A y \in S : x <= y

\* x in list
InSeq(x, q) == \E i \in 1..Len(q) : q[i] = x

(***************************************************************************)
(* Regular expressions (module re)                                         *)
(***************************************************************************)
Unbounded == 0 - 1        \* no upper limit of a repetition

Chr(cs) == [t |-> "chr", cs |-> cs]
Lit(c) == Chr({c})
Not(cs) == Chr(Alphabet \ cs)
Cat(rs) == [t |-> "cat", rs |-> rs]
Rep(r, lo, hi) == [t |-> "rep", r |-> r, lo |-> lo, hi |-> hi]
Star(r) == Rep(r, 0, Unbounded)
Plus(r) == Rep(r, 1, Unbounded)
Grp(n, r) == [t |-> "grp", n |-> n, r |-> r]
Alt(rs) == [t |-> "alt", rs |-> rs]
Eol == [t |-> "eol"]

NoCaps == <<<<0, 0>>, <<0, 0>>, <<0, 0>>>>

\* All ways regex r matches s from match state st (pos = next character),
\* in the order a backtracking matcher tries them.
RECURSIVE M(_, _, _), MCat(_, _, _, _), MRep(_, _, _, _)
M(r, s, st) ==
  CASE r.t = "chr" -> IF st.pos <= Len(s) /\ s[st.pos] \in r.cs
                      THEN <<[st EXCEPT !.pos = @ + 1]>> ELSE <<>>
    [] r.t = "eol" -> IF st.pos = Len(s) + 1 \/ (st.pos = Len(s) /\ s[st.pos] = "\n")
                      THEN <<st>> ELSE <<>>
    [] r.t = "cat" -> MCat(r.rs, 1, s, st)
    [] r.t = "alt" -> Flatten([i \in 1..Len(r.rs) |-> M(r.rs[i], s, st)])
    [] r.t = "rep" -> MRep(r, s, st, 0)
    [] r.t = "grp" -> LET inner == M(r.r, s, st)
                      IN [i \in 1..Len(inner) |->
                            [inner[i] EXCEPT !.caps[r.n] = <<st.pos, inner[i].pos - 1>>]]

MCat(rs, k, s, st) ==
  IF k > Len(rs) THEN <<st>>
  ELSE LET first == M(rs[k], s, st)
       IN Flatten([i \in 1..Len(first) |-> MCat(rs, k + 1, s, first[i])])

MRep(r, s, st, k) ==
  LET once == IF r.hi = Unbounded \/ k < r.hi THEN SelectSeq(M(r.r, s, st), LAMBDA u : u.pos > st.pos) ELSE <<>>
      more == Flatten([i \in 1..Len(once) |-> MRep(r, s, once[i], k + 1)])
      here == IF k >= r.lo THEN <<st>> ELSE <<>>
  IN more \o here

\* pattern.match(s, pos): the preferred match at position i, or None
MatchAt(r, s, i) ==
  LET all == M(r, s, [pos |-> i, caps |-> NoCaps])
  IN IF all = <<>> THEN None
     ELSE [start |-> i, end |-> all[1].pos - 1, caps |-> all[1].caps]

\* re.match(r, s)
Match(r, s) == MatchAt(r, s, 1)

\* the positions at which r matches
Hits(r, s) == {i \in 1..(Len(s) + 1) : MatchAt(r, s, i) # None}

\* re.search(r, s): the match at the leftmost position
Search(r, s) ==
  LET hits == Hits(r, s) IN IF hits = {} THEN None ELSE MatchAt(r, s, Min(hits))

\* list(pattern.finditer(s)) for patterns that match no empty string: the
\* leftmost match, then the leftmost match after its end, and so on
RECURSIVE FindIterFrom(_, _, _, _)
FindIterFrom(r, s, hits, from) ==
  LET later == {i \in hits : i >= from}
      m == MatchAt(r, s, Min(later))
  IN IF later = {} THEN <<>> ELSE <<m>> \o FindIterFrom(r, s, hits, m.end + 1)

FindIter(r, s) == FindIterFrom(r, s, Hits(r, s), 1)

\* m.group(n); a group that took no part in the match gives the empty string here
Group(s, m, n) == IF m.caps[n] = <<0, 0>> THEN <<>> ELSE Slice(s, m.caps[n][1], m.caps[n][2])

\* re.split(r, s) for patterns without groups
RECURSIVE SplitFrom(_, _, _, _)
SplitFrom(s, ms, k, from) ==
  IF k > Len(ms) THEN <<Slice(s, from, Len(s))>>
  ELSE <<Slice(s, from, ms[k].start - 1)>> \o SplitFrom(s, ms, k + 1, ms[k].end + 1)

Split(r, s) == SplitFrom(s, FindIter(r, s), 1, 1)

\* re.sub(r, '', s)
Sub(r, s) == Flatten(Split(r, s))

(***************************************************************************)
(* float(s) and normalize_price                                            *)
(***************************************************************************)
RECURSIVE DigitsVal(_)
DigitsVal(ds) == IF ds = <<>> THEN 0 ELSE 10 * DigitsVal(SubSeq(ds, 1, Len(ds) - 1)) + DigitVal(ds[Len(ds)])

RECURSIVE Pow10(_)
Pow10(k) == IF k = 0 THEN 1 ELSE 10 * Pow10(k - 1)

\* A float is num / 10^exp, with no trailing zero in the fraction.
RECURSIVE Float(_, _)
Float(num, exp) == IF exp > 0 /\ num % 10 = 0 THEN Float(num \div 10, exp - 1)
                   ELSE [num |-> num, exp |-> exp]

\* float(s) for the decimal forms: [sign] digits [. digits] and [sign] . digits
FloatRe == Cat(<<Rep(Chr({"+", "-"}), 0, 1), Grp(1, Star(Chr(Digit))),
                 Rep(Cat(<<Lit("."), Grp(2, Star(Chr(Digit)))>>), 0, 1)>>)

FloatParse(s) ==
  LET t == Strip(s)
      m == Match(FloatRe, t)
      ip == Group(t, m, 1)
      fp == Group(t, m, 2)
      mag == DigitsVal(ip \o fp)
  IN IF m = None \/ m.end # Len(t) \/ Len(ip) + Len(fp) = 0 THEN None
     ELSE Float(IF t[1] = "-" THEN 0 - mag ELSE mag, Len(fp))

\* r'[^\d\.].*$'
PriceTailRe == Cat(<<Not(Digit \cup {"."}), Star(Not({"\n"})), Eol>>)

normalize_price(s) ==
  IF s = <<>> THEN None
  ELSE LET s1 == RemoveChar(RemoveChar(Strip(s), "€"), " ")
           s2 == ReplaceChar(s1, ",", ".")
           s3 == Sub(PriceTailRe, s2)
       IN FloatParse(s3)

\* the keys of the prices dict, in the order of the dict literal (parser.py:115)
Roles == <<"students", "employees", "others">>

\* parser.py:101
NoPrices == [students |-> None, employees |-> None, others |-> None]

\* parser.py:101-109: the prices of a meal from its designated price line
SlashRe == Lit("/")

\* PriceParts, had the empty parts been kept
PriceParts_KeepEmpty(line) == [i \in 1..Len(Split(SlashRe, line)) |-> Strip(Split(SlashRe, line)[i])]

PriceParts(line) == SelectSeq([i \in 1..Len(Split(SlashRe, line)) |-> Strip(Split(SlashRe, line)[i])],
                              LAMBDA p : p # <<>>)

ParsePrices(line) ==
  IF line = NoLine THEN NoPrices
  ELSE LET parts == PriceParts(line)
       IN [students |-> IF Len(parts) >= 1 THEN normalize_price(parts[1]) ELSE None,
           employees |-> IF Len(parts) >= 2 THEN normalize_price(parts[2]) ELSE None,
           others |-> IF Len(parts) >= 3 THEN normalize_price(parts[3]) ELSE None]

\* r'\d+[,\.]\d+\s*€'
PriceRe == Cat(<<Plus(Chr(Digit)), Chr({",", "."}), Plus(Chr(Digit)), Star(Chr(White)), Lit("€")>>)

(***************************************************************************)
(* One meal entry: the body of the loop at parser.py:58-116                *)
(***************************************************************************)
Hauptgericht == <<"H", "a", "u", "p", "t", "g", "e", "r", "i", "c", "h", "t">>

\* r'^([^\n]+)\n+' (used with re.match, which anchors at the start)
HeaderRe == Cat(<<Grp(1, Plus(Not({"\n"}))), Plus(Lit("\n"))>>)

\* r'(?i)essen\s*\d+'
EssenRe == Cat(<<Chr({"e", "E"}), Chr({"s", "S"}), Chr({"s", "S"}), Chr({"e", "E"}),
                 Chr({"n", "N"}), Star(Chr(White)), Plus(Chr(Digit))>>)

\* r'\(([^)]+)\)'
LabelRe == Cat(<<Lit("("), Grp(1, Plus(Not({")"}))), Lit(")")>>)

\* r'[\/,]'
LabelSepRe == Chr({"/", ","})

\* r'^[\d,\s\/\(\)]+$'
NoiseRe == Cat(<<Plus(Chr(Digit \cup White \cup {",", "/", "(", ")"})), Eol>>)

\* parser.py:67-70
Category(cat_raw) == IF Match(EssenRe, cat_raw) # None THEN Hauptgericht ELSE cat_raw

\* parser.py:71: [ln.strip() for ln in body.splitlines() if ln.strip()!='']
BodyLines(body) ==
  LET raw == Split(Lit("\n"), body)
  IN SelectSeq([i \in 1..Len(raw) |-> Strip(raw[i])], LAMBDA ln : ln # <<>>)

\* parser.py:75-79: the first of lines[1:6] that holds a price
RECURSIVE PriceLineFrom(_, _)
PriceLineFrom(lines, i) ==
  IF i > Len(lines) \/ i > 6 THEN NoLine
  ELSE IF Search(PriceRe, lines[i]) # None THEN lines[i]
  ELSE PriceLineFrom(lines, i + 1)

\* DesignatedPriceLine, had the scan begun at the name line
DesignatedPriceLine_FromName(lines) == PriceLineFrom(lines, 1)

DesignatedPriceLine(lines) == PriceLineFrom(lines, 2)

\* parser.py:80
Labels(s) == LET ms == FindIter(LabelRe, s) IN [i \in 1..Len(ms) |-> Group(s, ms[i], 1)]

\* parser.py:85-88 and 90-93: the non-empty trimmed parts of one label
LabelParts(l) ==
  LET raw == Split(LabelSepRe, l)
  IN SelectSeq([i \in 1..Len(raw) |-> Strip(raw[i])], LAMBDA p : p # <<>>)

\* HasLetter, had the class held the lower-case letters only
HasLetter_LowerOnly(l) == Search(Chr(Lower), l) # None

\* parser.py:84
HasLetter(l) == Search(Chr(SourceLetter), l) # None

\* parser.py:83-88: the notes taken from the labels
LabelNotes(labels) ==
  Flatten([i \in 1..Len(labels) |-> IF HasLetter(labels[i]) THEN LabelParts(labels[i]) ELSE <<>>])

\* parser.py:83-93: the allergen codes taken from the labels
LabelCodes(labels) ==
  Flatten([i \in 1..Len(labels) |-> IF HasLetter(labels[i]) THEN <<>> ELSE LabelParts(labels[i])])

\* AddResidual, had the test "ln not in notes" been left out
RECURSIVE AddResidual_NoTest(_, _, _, _)
AddResidual_NoTest(lines, i, pl, notes) ==
  IF i > Len(lines) THEN notes
  ELSE IF lines[i] = pl THEN AddResidual_NoTest(lines, i + 1, pl, notes)
  ELSE IF Match(NoiseRe, lines[i]) # None THEN AddResidual_NoTest(lines, i + 1, pl, notes)
  ELSE AddResidual_NoTest(lines, i + 1, pl, Append(notes, lines[i]))

\* parser.py:94-100: the loop over lines[1:], from index i on
RECURSIVE AddResidual(_, _, _, _)
AddResidual(lines, i, pl, notes) ==
  IF i > Len(lines) THEN notes
  ELSE IF lines[i] = pl THEN AddResidual(lines, i + 1, pl, notes)
  ELSE IF Match(NoiseRe, lines[i]) # None THEN AddResidual(lines, i + 1, pl, notes)
  ELSE IF ~InSeq(lines[i], notes) THEN AddResidual(lines, i + 1, pl, Append(notes, lines[i]))
  ELSE AddResidual(lines, i + 1, pl, notes)

\* parser.py:59-66: the entry stripped, its header match, raw category and body
EntryHeader(e) ==
  LET s == Strip(e)
      hm == IF s = <<>> THEN None ELSE Match(HeaderRe, s)
  IN IF hm = None THEN None
     ELSE [cat_raw |-> Strip(Group(s, hm, 1)), body |-> Strip(Slice(s, hm.end + 1, Len(s)))]

\* parser.py:58-116: the meals one entry adds (none when it is skipped)
ParseEntry(e) ==
  LET h == EntryHeader(e)
  IN IF h = None THEN <<>>
     ELSE LET lines == BodyLines(h.body)
              pl == DesignatedPriceLine(lines)
              labels == Labels(h.cat_raw \o <<" ">> \o h.body)
          IN IF lines = <<>> THEN <<>>
             ELSE << [category |-> Category(h.cat_raw),
                      name |-> lines[1],
                      notes |-> AddResidual(lines, 2, pl, LabelNotes(labels)),
                      allergens |-> LabelCodes(labels),
                      prices |-> ParsePrices(pl)] >>

\* the price line designated while parsing entry e (None when skipped)
EntryPriceLine(e) ==
  LET h == EntryHeader(e)
  IN IF h = None THEN NoLine ELSE DesignatedPriceLine(BodyLines(h.body))

(***************************************************************************)
(* Dates: datetime.strptime(s, "%d.%m.%Y"), date.isoformat(), str(int)     *)
(***************************************************************************)
\* date = None. The code only tests d["date"] for truth, so None and the
\* empty str behave alike.
NoDate == <<>>

DigitChar(d) ==
  CASE d = 0 -> "0" [] d = 1 -> "1" [] d = 2 -> "2" [] d = 3 -> "3" [] d = 4 -> "4"
    [] d = 5 -> "5" [] d = 6 -> "6" [] d = 7 -> "7" [] d = 8 -> "8" [] d = 9 -> "9"

\* str(n) for n >= 0
RECURSIVE IntToStr(_)
IntToStr(n) == IF n < 10 THEN <<DigitChar(n)>> ELSE IntToStr(n \div 10) \o <<DigitChar(n % 10)>>

\* '%0wd' % n
RECURSIVE ZeroPad(_, _)
ZeroPad(ds, w) == IF Len(ds) >= w THEN ds ELSE ZeroPad(<<"0">> \o ds, w)

\* the regular expression _strptime builds for "%d.%m.%Y"
StrptimeRe ==
  Cat(<<Grp(1, Alt(<<Cat(<<Lit("3"), Chr({"0", "1"})>>),
                     Cat(<<Chr({"1", "2"}), Chr(Digit)>>),
                     Cat(<<Lit("0"), Chr(Digit \ {"0"})>>),
                     Chr(Digit \ {"0"}),
                     Cat(<<Lit(" "), Chr(Digit \ {"0"})>>)>>)),
        Lit("."),
        Grp(2, Alt(<<Cat(<<Lit("1"), Chr({"0", "1", "2"})>>),
                     Cat(<<Lit("0"), Chr(Digit \ {"0"})>>),
                     Chr(Digit \ {"0"})>>)),
        Lit("."),
        Grp(3, Rep(Chr(Digit), 4, 4))>>)

IsLeap(y) == y % 4 = 0 /\ (y % 100 # 0 \/ y % 400 = 0)

DaysInMonth(y, m) ==
  IF m = 2 THEN (IF IsLeap(y) THEN 29 ELSE 28)
  ELSE IF m \in {4, 6, 9, 11} THEN 30 ELSE 31

\* datetime.strptime(s, "%d.%m.%Y"): the date, or None where it raises
Strptime(s) ==
  LET m == Match(StrptimeRe, s)
      d == DigitsVal(Strip(Group(s, m, 1)))
      mo == DigitsVal(Group(s, m, 2))
      y == DigitsVal(Group(s, m, 3))
  IN IF m = None \/ m.end # Len(s) THEN None
     ELSE IF y < 1 \/ d > DaysInMonth(y, mo) THEN None
     ELSE [year |-> y, month |-> mo, day |-> d]

\* date.isoformat()
IsoFormat(dt) ==
  ZeroPad(IntToStr(dt.year), 4) \o <<"-">> \o ZeroPad(IntToStr(dt.month), 2)
    \o <<"-">> \o ZeroPad(IntToStr(dt.day), 2)

\* r'(\d{1,2}\.\d{1,2}\.\d{4})\s*-\s*(\d{1,2}\.\d{1,2}\.\d{4})'
FullDateRe == Cat(<<Rep(Chr(Digit), 1, 2), Lit("."), Rep(Chr(Digit), 1, 2), Lit("."),
                    Rep(Chr(Digit), 4, 4)>>)

YearRangeRe == Cat(<<Grp(1, FullDateRe), Star(Chr(White)), Lit("-"), Star(Chr(White)),
                     Grp(2, FullDateRe)>>)

extract_year_from_text(t, now) ==
  LET m == Search(YearRangeRe, t)
      dt == Strptime(Group(t, m, 1))
  IN IF m # None /\ dt # None THEN dt.year ELSE now

(***************************************************************************)
(* parse_text_blocks                                                       *)
(***************************************************************************)
\* r'####\s*([A-Za-zÄÖÜäöüß]+),\s*(\d{1,2}\.\d{1,2}\.)'
DayHeaderRe ==
  Cat(<<Lit("#"), Lit("#"), Lit("#"), Lit("#"), Star(Chr(White)),
        Grp(1, Plus(Chr(SourceLetter))), Lit(","), Star(Chr(White)),
        Grp(2, Cat(<<Rep(Chr(Digit), 1, 2), Lit("."), Rep(Chr(Digit), 1, 2), Lit(".")>>))>>)

\* r'\n\s*\*\s*#####\s*'
EntryMarkerRe ==
  Cat(<<Lit("\n"), Star(Chr(White)), Lit("*"), Star(Chr(White)),
        Lit("#"), Lit("#"), Lit("#"), Lit("#"), Lit("#"), Star(Chr(White))>>)

\* parser.py:49-52
DateIso(date_part) ==
  LET dt == Strptime(date_part) IN IF dt = None THEN NoDate ELSE IsoFormat(dt)

\* parser.py:55-56
Entries(t, start, end) == Split(EntryMarkerRe, Strip(Slice(t, start, end)))

\* parser.py:57-116: the meals of one day block
BlockMeals(entries) == Flatten([i \in 1..Len(entries) |-> ParseEntry(entries[i])])

\* parser.py:46-57 and 117: the Day of the i-th header
DayOf(t, matches, i, year) ==
  LET m == matches[i]
      end == IF i + 1 <= Len(matches) THEN matches[i + 1].start - 1 ELSE Len(t)
  IN [date |-> DateIso(Strip(Group(t, m, 2)) \o IntToStr(year)),
      weekday |-> Strip(Group(t, m, 1)),
      meals |-> BlockMeals(Entries(t, m.end + 1, end))]

\* parse_text_blocks, had it appended only the days that have meals
parse_text_blocks_DropEmpty(t, now) ==
  LET year == extract_year_from_text(t, now)
      matches == FindIter(DayHeaderRe, t)
  IN SelectSeq([i \in 1..Len(matches) |-> DayOf(t, matches, i, year)], LAMBDA d : d.meals # <<>>)

parse_text_blocks(t, now) ==
  LET year == extract_year_from_text(t, now)
      matches == FindIter(DayHeaderRe, t)
  IN [i \in 1..Len(matches) |-> DayOf(t, matches, i, year)]

(***************************************************************************)
(* build_openmensa_xml                                                     *)
(***************************************************************************)
\* "{:.2f}".format(v) for v >= 0 (a tie in the third decimal follows the
\* binary value in Python; it is rounded up here)
Format2f(v) ==
  LET cents == IF v.exp <= 2 THEN v.num * Pow10(2 - v.exp)
               ELSE (2 * v.num * 100 + Pow10(v.exp)) \div (2 * Pow10(v.exp))
  IN IntToStr(cents \div 100) \o <<".">> \o ZeroPad(IntToStr(cents % 100), 2)

AllergenPrefix == <<"A", "l", "l", "e", "r", "g", "e", "n", "e", ":", " ">>

\* parser.py:135-148: one meal element
MealElement(m) ==
  [name |-> m.name,
   notes |-> m.notes \o [i \in 1..Len(m.allergens) |-> AllergenPrefix \o m.allergens[i]],
   prices |-> LET present == SelectSeq(Roles, LAMBDA r : m.prices[r] # None)
              IN [i \in 1..Len(present) |->
                    [role |-> present[i], text |-> Format2f(m.prices[present[i]])]]]

\* GroupMeals, had a new category been put in front of the others
RECURSIVE GroupMeals_NewestFirst(_, _, _)
GroupMeals_NewestFirst(ms, i, groups) ==
  IF i > Len(ms) THEN groups
  ELSE IF \E k \in 1..Len(groups) : groups[k].name = ms[i].category
       THEN GroupMeals_NewestFirst(ms, i + 1,
              [k \in 1..Len(groups) |->
                 IF groups[k].name = ms[i].category
                 THEN [groups[k] EXCEPT !.meals = Append(@, ms[i])] ELSE groups[k]])
       ELSE GroupMeals_NewestFirst(ms, i + 1,
              <<[name |-> ms[i].category, meals |-> <<ms[i]>>]>> \o groups)

\* parser.py:129-131: groups.setdefault(m["category"], []).append(m), from meal i on
RECURSIVE GroupMeals(_, _, _)
GroupMeals(ms, i, groups) ==
  IF i > Len(ms) THEN groups
  ELSE IF \E k \in 1..Len(groups) : groups[k].name = ms[i].category
       THEN GroupMeals(ms, i + 1,
              [k \in 1..Len(groups) |->
                 IF groups[k].name = ms[i].category
                 THEN [groups[k] EXCEPT !.meals = Append(@, ms[i])] ELSE groups[k]])
       ELSE GroupMeals(ms, i + 1, Append(groups, [name |-> ms[i].category, meals |-> <<ms[i]>>]))

\* parser.py:128-148: one day element
DayElement(d) ==
  LET groups == GroupMeals(d.meals, 1, <<>>)
  IN [date |-> d.date,
      categories |-> [k \in 1..Len(groups) |->
                        [name |-> groups[k].name,
                         meals |-> [j \in 1..Len(groups[k].meals) |->
                                      MealElement(groups[k].meals[j])]]]]

\* build_openmensa_xml, had the test of d["date"] been left out
build_openmensa_xml_AllDays(canteen_name, ds) ==
  [version |-> "2.1",
   canteen |-> [name |-> canteen_name, days |-> [i \in 1..Len(ds) |-> DayElement(ds[i])]]]

\* the element tree that ET.tostring serializes
build_openmensa_xml(canteen_name, ds) ==
  LET dated == SelectSeq(ds, LAMBDA d : d.date # NoDate)
  IN [version |-> "2.1",
      canteen |-> [name |-> canteen_name,
                   days |-> [i \in 1..Len(dated) |-> DayElement(dated[i])]]]

(***************************************************************************)
(* main                                                                    *)
(***************************************************************************)
MaxDays == 5

CanteenName == "Zentralmensa Arnold-Bode-Straße (Studierendenwerk Kassel)"

\* A day as the page shows it: the characters, and what they are meant to be.
\* iso gives the date for a leap and for a common year; each entry names the
\* text after its marker and the category that text stands for.
Shown(txt, weekday, leap, common, entries) ==
  [txt |-> txt, weekday |-> weekday, iso |-> [leap |-> leap, common |-> common],
   entries |-> entries]

Entry(header, category) == [header |-> header, category |-> category]

Suppe == <<"S", "u", "p", "p", "e">>

\* "#### Montag, 1.1.\n* ##### Essen 1\nA\n1,50€\n"
DayMontag ==
  Shown(<<"#", "#", "#", "#", " ", "M", "o", "n", "t", "a", "g", ",", " ", "1", ".", "1", ".", "\n",
          "*", " ", "#", "#", "#", "#", "#", " ", "E", "s", "s", "e", "n", " ", "1", "\n",
          "A", "\n", "1", ",", "5", "0", "€", "\n">>,
        <<"M", "o", "n", "t", "a", "g">>,
        <<"2", "0", "2", "4", "-", "0", "1", "-", "0", "1">>,
        <<"2", "0", "2", "3", "-", "0", "1", "-", "0", "1">>,
        <<Entry(<<"E", "s", "s", "e", "n", " ", "1">>, Hauptgericht)>>)

\* "#### Di, 30.2.\n* ##### Suppe\nB\n"
DayDienstag ==
  Shown(<<"#", "#", "#", "#", " ", "D", "i", ",", " ", "3", "0", ".", "2", ".", "\n",
          "*", " ", "#", "#", "#", "#", "#", " ", "S", "u", "p", "p", "e", "\n", "B", "\n">>,
        <<"D", "i">>, NoDate, NoDate,
        <<Entry(Suppe, Suppe)>>)

\* "####Mi,29.02.\n"
DayMittwoch ==
  Shown(<<"#", "#", "#", "#", "M", "i", ",", "2", "9", ".", "0", "2", ".", "\n">>,
        <<"M", "i">>,
        <<"2", "0", "2", "4", "-", "0", "2", "-", "2", "9">>, NoDate,
        <<>>)

\* "#### Do, 4.1.2024\n * #####  essen3\n\nC (2)\n\t* ##### Suppe\nB\n"
DayDonnerstag ==
  Shown(<<"#", "#", "#", "#", " ", "D", "o", ",", " ", "4", ".", "1", ".", "2", "0", "2", "4", "\n",
          " ", "*", " ", "#", "#", "#", "#", "#", " ", " ", "e", "s", "s", "e", "n", "3", "\n", "\n",
          "C", " ", "(", "2", ")", "\n",
          "\t", "*", " ", "#", "#", "#", "#", "#", " ", "S", "u", "p", "p", "e", "\n", "B", "\n">>,
        <<"D", "o">>,
        <<"2", "0", "2", "4", "-", "0", "1", "-", "0", "4">>,
        <<"2", "0", "2", "3", "-", "0", "1", "-", "0", "4">>,
        <<Entry(<<"e", "s", "s", "e", "n", "3">>, Hauptgericht), Entry(Suppe, Suppe)>>)

DaySet == {DayMontag, DayDienstag, DayMittwoch, DayDonnerstag}

\* the line above the days: nothing, or "1.1.2024 - 5.1.2024\n"
NoRange == [txt |-> <<>>, year |-> 0]
Range2024 == [txt |-> <<"1", ".", "1", ".", "2", "0", "2", "4", " ", "-", " ",
                        "5", ".", "1", ".", "2", "0", "2", "4", "\n">>, year |-> 2024]

PageSet ==
  { [range |-> r, days |-> ds] :
      r \in {NoRange, Range2024},
      ds \in UNION { [1..n -> DaySet] : n \in 0..MaxDays } }

\* soup.get_text("\n") of the page
PageText(g) == g.range.txt \o Flatten([i \in 1..Len(g.days) |-> g.days[i].txt])

Init ==
  /\ pc = "fetch"
  /\ given \in PageSet
  /\ fetch = "pending"
  /\ nowYear = 2023
  /\ text = <<>>
  /\ days = <<>>
  /\ xml = None
  /\ feed = None
  /\ exitCode = <<>>
  /\ ent = <<>> /\ meals = <<>> /\ price_line = NoLine /\ prices = NoPrices

\* parser.py:154-158: fetch_html raises
FetchFails ==
  /\ pc = "fetch"
  /\ fetch' = "raised"
  /\ exitCode' = Append(exitCode, 2)
  /\ pc' = "exit"
  /\ UNCHANGED <<given, nowYear, text, days, xml, feed, ent, meals, price_line, prices>>

\* parser.py:155-161: fetch_html returns and the page is reduced to text
FetchText ==
  /\ pc = "fetch"
  /\ fetch' = "returned"
  /\ text' = PageText(given)
  /\ pc' = "parse"
  /\ UNCHANGED <<given, nowYear, days, xml, feed, exitCode, ent, meals, price_line, prices>>

\* parser.py:162
Parse ==
  /\ pc = "parse"
  /\ days' = parse_text_blocks(text, nowYear)
  /\ pc' = "check"
  /\ UNCHANGED <<given, fetch, nowYear, text, xml, feed, exitCode, ent, meals, price_line, prices>>

\* parser.py:163-165
ExitNoDays ==
  /\ pc = "check"
  /\ Len(days) = 0
  /\ exitCode' = Append(exitCode, 3)
  /\ pc' = "exit"
  /\ UNCHANGED <<given, fetch, nowYear, text, days, xml, feed, ent, meals, price_line, prices>>

\* WriteFeed, had write_text been left out
WriteFeed_NotWritten ==
  /\ pc = "check"
  /\ Len(days) # 0
  /\ xml' = build_openmensa_xml(CanteenName, days)
  /\ pc' = "written"
  /\ UNCHANGED <<given, fetch, nowYear, text, days, feed, exitCode, ent, meals, price_line, prices>>

\* parser.py:166-169
WriteFeed ==
  /\ pc = "check"
  /\ Len(days) # 0
  /\ xml' = build_openmensa_xml(CanteenName, days)
  /\ feed' = xml'
  /\ pc' = "written"
  /\ UNCHANGED <<given, fetch, nowYear, text, days, exitCode, ent, meals, price_line, prices>>

\* DatedCount, had the date filter been left out
DatedCount_All(ds) == Len(ds)

\* parser.py:171: sum(1 for d in days if d["date"])
DatedCount(ds) == Len(SelectSeq(ds, LAMBDA d : d.date # NoDate))

\* parser.py:171-173
ExitTooFew ==
  /\ pc = "written"
  /\ DatedCount(days) < 4
  /\ exitCode' = Append(exitCode, 4)
  /\ pc' = "exit"
  /\ UNCHANGED <<given, fetch, nowYear, text, days, xml, feed, ent, meals, price_line, prices>>

\* parser.py:174
ExitOk ==
  /\ pc = "written"
  /\ ~(DatedCount(days) < 4)
  /\ exitCode' = Append(exitCode, 0)
  /\ pc' = "exit"
  /\ UNCHANGED <<given, fetch, nowYear, text, days, xml, feed, ent, meals, price_line, prices>>

Next == FetchFails \/ FetchText \/ Parse \/ ExitNoDays \/ WriteFeed \/ ExitTooFew \/ ExitOk

Spec == Init /\ [][Next]_vars

(***************************************************************************)
(* Claims about main                                                       *)
(***************************************************************************)
Parsed == fetch = "returned" /\ pc \in {"check", "written", "exit"}

\* the Days among ds that carry a date, counted one by one
Dated(ds) == {k \in 1..Len(ds) : ds[k].date # NoDate}

\* the year the page stands for, and the date a shown day then has
ShownYear == IF given.range.year # 0 THEN given.range.year ELSE nowYear

ShownIso(k) == IF IsLeap(ShownYear) THEN given.days[k].iso.leap ELSE given.days[k].iso.common

\* C1: a run ends with one exit code: 2 if the fetch raised, else 3 if no
\* Day was returned, else 4 if fewer than four returned Days carry a date,
\* else 0; no code is given before the end.
C1_ExitCode ==
  /\ pc # "exit" => exitCode = <<>>
  /\ pc = "exit" =>
        exitCode = << IF fetch = "raised" THEN 2
                      ELSE IF Len(days) = 0 THEN 3
                      ELSE IF Cardinality(Dated(days)) < 4 THEN 4
                      ELSE 0 >>

\* four Days or more were returned, fewer than four with a date: code 4
C1_Witness ==
  /\ pc = "exit" /\ fetch = "returned"
  /\ Len(days) >= 4 /\ Cardinality(Dated(days)) = 3
  /\ exitCode = <<4>>

\* what C2 says of every state: at the end the feed is there exactly for the
\* codes 0 and 4, and a raised fetch leaves text, Days and feed untouched
C2_FeedWrittenState ==
  /\ pc = "exit" => (feed # None <=> exitCode[1] \in {0, 4})
  /\ feed # None => feed = xml /\ pc \in {"written", "exit"}
  /\ fetch = "raised" => text = <<>> /\ days = <<>> /\ xml = None /\ feed = None

\* what C2 says of every step: the codes 0 and 4 are given with the feed
\* already written, the code 2 straight from the fetch, the code 3 without feed
C2_FeedWrittenStep ==
  /\ exitCode' # exitCode /\ exitCode'[1] \in {0, 4} => feed # None /\ UNCHANGED feed
  /\ exitCode' # exitCode /\ exitCode'[1] = 2 => pc = "fetch" /\ UNCHANGED <<text, days, xml, feed>>
  /\ exitCode' # exitCode /\ exitCode'[1] = 3 => feed = None /\ UNCHANGED <<xml, feed>>
  /\ days' # days => fetch = "returned"

\* C2: the feed is written exactly in the runs that end with 0 or 4, and
\* before the code is given; a run ending with 2 has parsed nothing and
\* written nothing, a run ending with 3 has written nothing.
C2_FeedWritten == []C2_FeedWrittenState /\ [][C2_FeedWrittenStep]_vars

\* a run that wrote the feed and then ended with 4
C2_Witness == pc = "exit" /\ exitCode = <<4>> /\ feed # None /\ feed = xml

\* what C3 and C4 say of a Day without date: it is kept in the Day sequence
\* and is no day element of the feed
UndatedKeptNotRendered ==
  /\ Parsed =>
        /\ Len(days) = Len(given.days)
        /\ \A k \in 1..Len(given.days) : ShownIso(k) = NoDate => days[k].date = NoDate
  /\ xml # None =>
        /\ Len(xml.canteen.days) = Cardinality({k \in 1..Len(given.days) : ShownIso(k) # NoDate})
        /\ \A i \in 1..Len(xml.canteen.days) : xml.canteen.days[i].date # NoDate

\* C3 as claimed: the number of Days set against the threshold of four
\* includes the Days without date
C3_UndatedCountedForFour ==
  /\ UndatedKeptNotRendered
  /\ pc = "exit" /\ fetch = "returned" /\ Len(days) > 0 =>
        (exitCode = <<4>> <=> Len(days) < 4)

\* C3 amended: a Day without date is kept and not rendered; it counts for
\* the test for zero Days (code 3), not for the threshold of four, which
\* counts the Days with a date.
C3_UndatedNotCountedForFour ==
  /\ UndatedKeptNotRendered
  /\ pc = "exit" /\ fetch = "returned" =>
        /\ exitCode = <<3>> <=> Len(given.days) = 0
        /\ Len(days) > 0 =>
              (exitCode = <<4>> <=>
                 Cardinality({k \in 1..Len(given.days) : ShownIso(k) # NoDate}) < 4)

\* four Days, one of them the 30.2.: three day elements and code 4
C3_Witness ==
  /\ pc = "exit" /\ Len(given.days) = 4
  /\ Cardinality({k \in 1..4 : given.days[k] = DayDienstag}) = 1
  /\ Cardinality(Dated(days)) = 3
  /\ Len(xml.canteen.days) = 3
  /\ exitCode = <<4>>

\* a page of undated Days only still has its feed written
C3_WitnessAllUndated ==
  /\ pc = "exit" /\ Len(days) > 0 /\ Dated(days) = {} /\ exitCode = <<4>>

\* C4: n day headers give n Days in header order, a day without entries an
\* empty Day, a day with entries as many Meals; the feed has one day element
\* for each Day with a date, in the same order, and none for the others.
C4_DaysAndDayElements ==
  /\ Parsed =>
        /\ Len(days) = Len(given.days)
        /\ \A k \in 1..Len(given.days) :
              /\ days[k].weekday = given.days[k].weekday
              /\ days[k].date = ShownIso(k)
              /\ Len(days[k].meals) = Len(given.days[k].entries)
  /\ xml # None =>
        LET dated == SelectSeq([k \in 1..Len(given.days) |-> ShownIso(k)], LAMBDA d : d # NoDate)
        IN /\ Len(xml.canteen.days) = Len(dated)
           /\ \A i \in 1..Len(dated) : xml.canteen.days[i].date = dated[i]

\* five dated days of two kinds, each with a meal: five Days, five day elements
C4_Witness ==
  /\ pc = "exit" /\ Len(given.days) = 5
  /\ \A k \in 1..5 : given.days[k] \in {DayMontag, DayDonnerstag}
  /\ given.days[1] = DayDonnerstag /\ given.days[2] = DayMontag
  /\ Len(days) = 5 /\ \A k \in 1..5 : Len(days[k].meals) >= 1 /\ days[k].date # NoDate
  /\ Len(xml.canteen.days) = 5
  /\ exitCode = <<0>>

\* C6: the category of every meal entry, the first one after the day header
\* included, is "Hauptgericht" for a header "essen" plus number and the
\* header text otherwise; the marker is no part of it.
C6_CategoryFromHeader ==
  Parsed =>
    \A k \in 1..Len(given.days) :
      /\ k <= Len(days)
      /\ \A j \in 1..Len(given.days[k].entries) :
            /\ j <= Len(days[k].meals)
            /\ days[k].meals[j].category = given.days[k].entries[j].category

(***************************************************************************)
(* The feed builder alone: build_openmensa_xml applied to Day sequences    *)
(***************************************************************************)
MaxMeals == 3

MealA(cat) ==
  [category |-> cat, name |-> <<"A">>, notes |-> <<<<"x">>>>, allergens |-> <<<<"2">>>>,
   prices |-> [students |-> Float(150, 2), employees |-> None, others |-> Float(3, 0)]]

MealB(cat) ==
  [category |-> cat, name |-> <<"B">>, notes |-> <<>>, allergens |-> <<>>, prices |-> NoPrices]

MealSet == {MealA(Hauptgericht), MealA(Suppe), MealB(Hauptgericht), MealB(Suppe)}

UndatedDay == [date |-> NoDate, weekday |-> <<"D", "i">>, meals |-> <<MealB(Suppe)>>]

\* a dated Day of up to MaxMeals meals, alone or behind a Day without date
DaySeqSet ==
  { pre \o <<[date |-> DayMontag.iso.leap, weekday |-> DayMontag.weekday, meals |-> ms]>> :
      pre \in {<<>>, <<UndatedDay>>},
      ms \in UNION { [1..n -> MealSet] : n \in 0..MaxMeals } }

InitBuild ==
  /\ pc = "build"
  /\ given \in DaySeqSet
  /\ days = given
  /\ xml = None
  /\ fetch = "pending" /\ nowYear = 0 /\ text = <<>> /\ feed = None /\ exitCode = <<>>
  /\ ent = <<>> /\ meals = <<>> /\ price_line = NoLine /\ prices = NoPrices

Build ==
  /\ pc = "build"
  /\ xml' = build_openmensa_xml(CanteenName, days)
  /\ pc' = "built"
  /\ UNCHANGED <<given, fetch, nowYear, text, days, feed, exitCode, ent, meals, price_line, prices>>

NextBuild == Build

SpecBuild == InitBuild /\ [][NextBuild]_vars

\* the position of the first meal of category c
FirstOf(ms, c) == Min({i \in 1..Len(ms) : ms[i].category = c})

\* the names of the meals of category c, in the order of the meals
NamesOf(ms, c) ==
  LET sel == SelectSeq(ms, LAMBDA m : m.category = c) IN [i \in 1..Len(sel) |-> sel[i].name]

\* C5: a rendered Day has one category element for each category of its
\* meals, ordered by the first meal of each, and each holds the meals of its
\* category in their order: every meal once.
C5_GroupedByCategory ==
  pc = "built" =>
    /\ Len(xml.canteen.days) = 1
    /\ LET ms == days[Len(days)].meals
           cs == xml.canteen.days[1].categories
       IN /\ {cs[a].name : a \in 1..Len(cs)} = {ms[i].category : i \in 1..Len(ms)}
          /\ \A a, b \in 1..Len(cs) :
                a < b => cs[a].name # cs[b].name /\ FirstOf(ms, cs[a].name) < FirstOf(ms, cs[b].name)
          /\ \A a \in 1..Len(cs) :
                [j \in 1..Len(cs[a].meals) |-> cs[a].meals[j].name] = NamesOf(ms, cs[a].name)

\* meals Suppe, Hauptgericht, Suppe: the categories are Suppe, Hauptgericht
C5_Witness ==
  /\ pc = "built"
  /\ days[Len(days)].meals = <<MealA(Suppe), MealB(Hauptgericht), MealB(Suppe)>>
  /\ Len(xml.canteen.days[1].categories) = 2
  /\ xml.canteen.days[1].categories[1].name = Suppe
  /\ Len(xml.canteen.days[1].categories[1].meals) = 2

(***************************************************************************)
(* Price lines: parser.py:101-109 applied to designated price lines        *)
(***************************************************************************)
MaxParts == 4

\* What may stand between two slashes of a price line: kind "amount" is a
\* price written a,bb with the currency symbol, kind "junk" has no leading
\* number, kind "empty" is blank.
PartSet ==
  { [kind |-> "amount", txt |-> <<"1", ",", "5", "0", "€">>, val |-> Float(150, 2)],
    [kind |-> "amount", txt |-> <<" ", "2", ",", "0", "5", " ", "€", " ">>, val |-> Float(205, 2)],
    [kind |-> "junk", txt |-> <<"x">>, val |-> None],
    [kind |-> "signed", txt |-> <<"-", "3", ",", "0", "0", "€">>, val |-> None],
    [kind |-> "empty", txt |-> <<>>, val |-> None],
    [kind |-> "empty", txt |-> <<" ">>, val |-> None] }

PartSeqs == UNION { [1..n -> PartSet] : n \in 1..MaxParts }

RECURSIVE Join(_, _)
Join(ss, sep) == IF ss = <<>> THEN <<>>
                 ELSE IF Len(ss) = 1 THEN ss[1]
                 ELSE ss[1] \o sep \o Join(Tail(ss), sep)

PriceLineOf(ps) == Strip(Join([i \in 1..Len(ps) |-> ps[i].txt], <<"/">>))

InitPrice ==
  /\ pc = "price"
  /\ given \in PartSeqs
  /\ price_line = PriceLineOf(given)
  /\ Search(PriceRe, price_line) # None
  /\ prices = NoPrices
  /\ fetch = "pending" /\ nowYear = 0 /\ text = <<>> /\ days = <<>> /\ xml = None /\ feed = None
  /\ exitCode = <<>> /\ ent = <<>> /\ meals = <<>>

SetPrices ==
  /\ pc = "price"
  /\ prices' = ParsePrices(price_line)
  /\ pc' = "priced"
  /\ UNCHANGED <<given, fetch, nowYear, text, days, xml, feed, exitCode, ent, meals, price_line>>

NextPrice == SetPrices

SpecPrice == InitPrice /\ [][NextPrice]_vars

\* the parts of a price line that remain after trimming and discarding
Kept(ps) == SelectSeq(ps, LAMBDA p : p.kind # "empty")

\* C7: the non-empty parts of the designated price line go to students,
\* employees, others by position; a part a,bb with the currency symbol gives
\* a.bb, a part that is no number leaves only its own role absent, a role
\* without a part is absent, and no price is negative.
C7_PricesByPosition ==
  pc = "priced" =>
    \A i \in 1..3 :
      LET kept == Kept(given)
          v == prices[Roles[i]]
      IN /\ i > Len(kept) => v = None
         /\ i <= Len(kept) /\ kept[i].kind \in {"amount", "junk"} => v = kept[i].val
         /\ v # None => v.num >= 0

\* a run with an unparsable first part, an empty part and more than three parts
C7_Witness ==
  /\ pc = "priced"
  /\ Len(given) = 4 /\ Len(Kept(given)) = 3
  /\ Kept(given)[1].kind = "junk" /\ Kept(given)[2].kind = "amount"
  /\ prices.students = None /\ prices.employees # None /\ prices.others # None

(***************************************************************************)
(* Meal entries: parser.py:58-116 applied to one entry                     *)
(***************************************************************************)
MaxWindowLines == 7
MaxNoteLines == 3

\* A parenthesized group as written: its parts, and whether it has a letter
Grouping(letters, parts) == [letters |-> letters, parts |-> parts]

\* A body line as written: lead \o line, with what the line is meant to be
Written(lead, line, price, noise, groups) ==
  [lead |-> lead, line |-> line, price |-> price, noise |-> noise, groups |-> groups]

LinePrice1 == Written(<<>>, <<"1", ",", "5", "0", "€">>, TRUE, FALSE, <<>>)
LinePrice2 == Written(<<" ">>, <<"2", ".", "5", " ", "€", "/", "3", "€">>, TRUE, FALSE, <<>>)
LineNumber == Written(<<>>, <<"1", "2", ",", "3", "4">>, FALSE, TRUE, <<>>)
LineFoo == Written(<<>>, <<"f", "o", "o">>, FALSE, FALSE, <<>>)
LineA == Written(<<"\t">>, <<"A">>, FALSE, FALSE, <<>>)
LineLetters == Written(<<>>, <<"(", "A", ",", " ", "C", ")">>, FALSE, FALSE,
                       <<Grouping(TRUE, <<<<"A">>, <<"C">>>>)>>)
LineCodes == Written(<<>>, <<"(", "2", ",", "3", ")">>, FALSE, TRUE,
                     <<Grouping(FALSE, <<<<"2">>, <<"3">>>>)>>)
LineMixed == Written(<<>>, <<"x", " ", "(", "A", "/", " ", ",", "2", ")", "(", "5", ")">>, FALSE, FALSE,
                     <<Grouping(TRUE, <<<<"A">>, <<"2">>>>), Grouping(FALSE, <<<<"5">>>>)>>)

WindowLines == {LinePrice1, LinePrice2, LineNumber}
NoteLines == {LinePrice1, LineFoo, LineA, LineLetters, LineCodes, LineMixed}

HeaderSuppe == [txt |-> <<"S", "u", "p", "p", "e">>, groups |-> <<>>]
HeaderEssenB == [txt |-> <<"e", "S", "s", "e", "n", "2", " ", "(", "B", ")">>,
                 groups |-> <<Grouping(TRUE, <<<<"B">>>>)>>]

EntrySet ==
  { [header |-> HeaderSuppe, lines |-> ls] :
      ls \in UNION { [1..n -> WindowLines] : n \in 0..MaxWindowLines } }
  \cup
  { [header |-> h, lines |-> ls] :
      h \in {HeaderSuppe, HeaderEssenB},
      ls \in UNION { [1..n -> NoteLines] : n \in 0..MaxNoteLines } }

\* the entry text: the header, a blank line, the body lines
EntryOf(g) ==
  g.header.txt \o <<"\n", "\n">>
    \o Join([i \in 1..Len(g.lines) |-> g.lines[i].lead \o g.lines[i].line], <<"\n">>)

InitEntry ==
  /\ pc = "entry"
  /\ given \in EntrySet
  /\ ent = EntryOf(given)
  /\ meals = <<>>
  /\ price_line = NoLine
  /\ prices = NoPrices
  /\ fetch = "pending" /\ nowYear = 0 /\ text = <<>> /\ days = <<>> /\ xml = None /\ feed = None
  /\ exitCode = <<>>

\* one pass of the loop body at parser.py:58-116
DoEntry ==
  /\ pc = "entry"
  /\ meals' = meals \o ParseEntry(ent)
  /\ price_line' = EntryPriceLine(ent)
  /\ prices' = ParsePrices(EntryPriceLine(ent))
  /\ pc' = "entryDone"
  /\ UNCHANGED <<given, fetch, nowYear, text, days, xml, feed, exitCode, ent>>

NextEntry == DoEntry

SpecEntry == InitEntry /\ [][NextEntry]_vars

\* the positions of a written body that may hold the price line
InWindow(ls) == {i \in 2..6 : i <= Len(ls) /\ ls[i].price}

\* C8: the designated price line is the first of body lines 2..6 that holds
\* digits, comma or period, digits and the currency symbol; line 1 and lines
\* from 7 on, and numbers without the currency symbol, are never designated;
\* with no such line in the window there is no price line and no price.
C8_PriceLineWindow ==
  pc = "entryDone" /\ Len(given.lines) >= 1 =>
    LET ls == given.lines
    IN /\ Len(meals) = 1
       /\ InWindow(ls) = {} => price_line = NoLine /\ meals[1].prices = NoPrices
       /\ InWindow(ls) # {} => price_line = ls[Min(InWindow(ls))].line
       /\ meals[1].prices = prices

\* prices stand at lines 1 and 7 only: nothing is designated
C8_Witness ==
  /\ pc = "entryDone" /\ Len(given.lines) = 7
  /\ given.lines[1].price /\ given.lines[7].price /\ InWindow(given.lines) = {}
  /\ price_line = NoLine /\ meals[1].prices = NoPrices

\* the groups written in an entry, header first, and what they are meant to give
GroupsOf(g) == g.header.groups \o Flatten([i \in 1..Len(g.lines) |-> g.lines[i].groups])

ExpectedNotes(g) ==
  LET gs == GroupsOf(g)
  IN Flatten([i \in 1..Len(gs) |-> IF gs[i].letters THEN gs[i].parts ELSE <<>>])

ExpectedCodes(g) ==
  LET gs == GroupsOf(g)
  IN Flatten([i \in 1..Len(gs) |-> IF gs[i].letters THEN <<>> ELSE gs[i].parts])

\* the notes of the meal after the annotation-derived ones
Residual(g, notes) == SubSeq(notes, Len(ExpectedNotes(g)) + 1, Len(notes))

\* C9: every parenthesized group of header and body is classified whole: with
\* a letter all its non-empty trimmed parts are notes and none a code, without
\* a letter all are allergen codes and none a note, in order of appearance.
C9_GroupsClassified ==
  pc = "entryDone" /\ Len(given.lines) >= 1 =>
    /\ Len(meals) = 1
    /\ meals[1].allergens = ExpectedCodes(given)
    /\ Len(meals[1].notes) >= Len(ExpectedNotes(given))
    /\ SubSeq(meals[1].notes, 1, Len(ExpectedNotes(given))) = ExpectedNotes(given)
    /\ \A k \in 1..Len(Residual(given, meals[1].notes)) :
          \E i \in 2..Len(given.lines) : Residual(given, meals[1].notes)[k] = given.lines[i].line

\* a header group, a letter group holding a digit part, and a digit group
C9_Witness ==
  /\ pc = "entryDone" /\ Len(given.lines) = 2
  /\ given.header = HeaderEssenB /\ given.lines[1] = LineMixed /\ given.lines[2] = LineCodes
  /\ meals[1].allergens = <<<<"5">>, <<"2">>, <<"3">>>>
  /\ SubSeq(meals[1].notes, 1, 3) = <<<<"B">>, <<"A">>, <<"2">>>>

NoDuplicates(q) == \A i, j \in 1..Len(q) : i # j => q[i] # q[j]

\* the body lines that are to be kept as notes, by position
KeptLines(g, pl) == {i \in 2..Len(g.lines) : g.lines[i].line # pl /\ ~g.lines[i].noise}

\* q lists lines of g at strictly increasing positions
RECURSIVE InLineOrder(_, _, _)
InLineOrder(q, g, from) ==
  \/ q = <<>>
  \/ \E i \in from..Len(g.lines) :
        /\ g.lines[i].line = q[1]
        /\ \A j \in from..(i - 1) : g.lines[j].line # q[1]
        /\ InLineOrder(Tail(q), g, i + 1)

\* notes are the annotation-derived notes, then residual lines in line order,
\* no residual from the name line, the price line or a noise line
NotesLayout(g, m, pl) ==
  LET res == Residual(g, m.notes)
  IN /\ Len(m.notes) >= Len(ExpectedNotes(g))
     /\ SubSeq(m.notes, 1, Len(ExpectedNotes(g))) = ExpectedNotes(g)
     /\ InLineOrder(res, g, 2)
     /\ \A k \in 1..Len(res) : \E i \in KeptLines(g, pl) : g.lines[i].line = res[k]
     /\ \A i \in KeptLines(g, pl) : InSeq(g.lines[i].line, m.notes)

\* C10 as claimed: annotation notes first, then the residual lines in line
\* order, and no string twice in notes
C10_NotesNoDuplicates ==
  pc = "entryDone" /\ Len(given.lines) >= 1 =>
    /\ Len(meals) = 1
    /\ NotesLayout(given, meals[1], price_line)
    /\ NoDuplicates(meals[1].notes)

\* C10 amended: annotation notes first, as often as they are written; then
\* the residual lines in line order, each only if no equal string is in notes
\* already, so no residual repeats an annotation note or another residual.
C10_ResidualNoDuplicates ==
  pc = "entryDone" /\ Len(given.lines) >= 1 =>
    /\ Len(meals) = 1
    /\ NotesLayout(given, meals[1], price_line)
    /\ NoDuplicates(Residual(given, meals[1].notes))
    /\ \A k \in 1..Len(Residual(given, meals[1].notes)) :
          ~InSeq(Residual(given, meals[1].notes)[k], ExpectedNotes(given))

\* a note written in two groups stays twice; the line "A" equal to it and the
\* second "foo" are suppressed
C10_Witness ==
  /\ pc = "entryDone" /\ Len(given.lines) = 3
  /\ given.header = HeaderSuppe
  /\ given.lines[1] = LineLetters /\ given.lines[2] = LineMixed /\ given.lines[3] = LineA
  /\ meals[1].notes = <<<<"A">>, <<"C">>, <<"A">>, <<"2">>, LineMixed.line>>

====
